---- MODULE Spec2Model ----
(***************************************************************************)
(* SecureOps Workbench: the detection engine (backend/app/detect.py), the  *)
(* incident handlers (backend/app/main.py) and the incident packet and     *)
(* evidence writer (backend/app/reporting.py), as a state machine over the *)
(* rows of the store.                                                      *)
(*                                                                         *)
(* Strings the code inspects character by character (match_field,          *)
(* match_contains, payload keys and values) are sequences of one-character *)
(* strings; strings it only compares (source, status) are TLA+ strings.    *)
(* A datetime is a natural number; utc_now() returns a value that is never *)
(* smaller than the one it returned before.                                *)
(***************************************************************************)
EXTENDS Naturals, Integers, Sequences, FiniteSets, TLC

VARIABLES
    now,          \* the last value utc_now() returned
    rules,        \* table Rule
    events,       \* table Event
    alerts,       \* table Alert
    incidents,    \* table Incident
    links,        \* table IncidentAlert
    actions,      \* table IncidentAction
    evidence,     \* table EvidenceFile
    blobs,        \* EVIDENCE_DIR: the files <incident id>/incident-packet.json
    nextId,       \* uuid4(): the next unused id of each table
    result,       \* what the last finished handler returned
    written,      \* history: the payloads write_packet_evidence wrote, by incident
    sess          \* the sessions of the handlers that run concurrently

vars == <<now, rules, events, alerts, incidents, links, actions, evidence,
          blobs, nextId, result, written, sess>>

----------------------------------------------------------------------------
(* Bounds of the model *)

MaxTime == 1

MaxRules == 1

MaxEvents == 2

MaxAlerts == 2

MaxIncidents == 1

MaxActions == 1

MaxEvidence == 2

\* run(): run_detections(session, limit=500); the window is scaled down with
\* the number of events.
DetectionLimit == 1

Times == 0..MaxTime

\* utc_now(), read after it returned t: the clock has not moved or has ticked
\* (only the order of datetimes is ever used, so one tick stands for any
\* positive amount of time)
UtcNow(t) == {u \in Times : t <= u /\ u <= t + 1}

----------------------------------------------------------------------------
(* Strings as sequences of characters *)

UpperChars == <<"A","B","C","D","E","F","G","H","I","J","K","L","M",
                "N","O","P","Q","R","S","T","U","V","W","X","Y","Z">>

LowerChars == <<"a","b","c","d","e","f","g","h","i","j","k","l","m",
                "n","o","p","q","r","s","t","u","v","w","x","y","z">>

\* str.lower() on one character
LowerChar(c) ==
    IF \E i \in 1..26 : UpperChars[i] = c
    THEN LowerChars[CHOOSE i \in 1..26 : UpperChars[i] = c]
    ELSE c

\* str.lower()
Lower(s) == [i \in 1..Len(s) |-> LowerChar(s[i])]

\* needle in haystack
Contains(needle, hay) ==
    \E i \in 0..(Len(hay) - Len(needle)) :
        SubSeq(hay, i + 1, i + Len(needle)) = needle

\* path.split("."): the segments between the dots; "" splits to [""]
RECURSIVE SplitDots(_, _)
SplitDots(s, cur) ==
    IF s = <<>> THEN <<cur>>
    ELSE IF Head(s) = "." THEN <<cur>> \o SplitDots(Tail(s), <<>>)
    ELSE SplitDots(Tail(s), Append(cur, Head(s)))

Split(path) == SplitDots(path, <<>>)

RECURSIVE Concat(_)
Concat(ss) == IF ss = <<>> THEN <<>> ELSE Head(ss) \o Concat(Tail(ss))

RECURSIVE JoinWith(_, _)
JoinWith(ss, sep) ==
    IF ss = <<>> THEN <<>>
    ELSE IF Len(ss) = 1 THEN Head(ss)
    ELSE Head(ss) \o sep \o JoinWith(Tail(ss), sep)

----------------------------------------------------------------------------
(* JSON values: a tagged variant *)

JNull == [t |-> "null"]
JBool(b) == [t |-> "bool", b |-> b]
JNum(n) == [t |-> "num", n |-> n]
JStr(s) == [t |-> "str", s |-> s]
JList(xs) == [t |-> "list", xs |-> xs]
\* a dict: its (key, value) pairs in insertion order, keys distinct
JMap(kvs) == [t |-> "map", kvs |-> kvs]

HasKey(m, k) == \E i \in 1..Len(m.kvs) : m.kvs[i][1] = k

Lookup(m, k) == m.kvs[CHOOSE i \in 1..Len(m.kvs) : m.kvs[i][1] = k][2]

Digits == <<"0","1","2","3","4","5","6","7","8","9">>

RECURSIVE NatToStr(_)
NatToStr(n) ==
    IF n < 10 THEN <<Digits[n + 1]>>
    ELSE NatToStr(n \div 10) \o <<Digits[(n % 10) + 1]>>

\* json.dumps of a str: quoted, with the quote and the backslash escaped
RECURSIVE EscapeChars(_)
EscapeChars(s) ==
    IF s = <<>> THEN <<>>
    ELSE (IF Head(s) = "\"" THEN <<"\\", "\"">>
          ELSE IF Head(s) = "\\" THEN <<"\\", "\\">>
          ELSE <<Head(s)>>) \o EscapeChars(Tail(s))

Quoted(s) == <<"\"">> \o EscapeChars(s) \o <<"\"">>

\* json.dumps(value, ensure_ascii=False): ", " between items, ": " after keys
RECURSIVE JsonDumps(_)
JsonDumps(v) ==
    CASE v.t = "null" -> <<"n","u","l","l">>
      [] v.t = "bool" -> IF v.b THEN <<"t","r","u","e">> ELSE <<"f","a","l","s","e">>
      [] v.t = "num"  -> NatToStr(v.n)
      [] v.t = "str"  -> Quoted(v.s)
      [] v.t = "list" ->
            <<"[">> \o JoinWith([i \in 1..Len(v.xs) |-> JsonDumps(v.xs[i])], <<",", " ">>)
                    \o <<"]">>
      [] v.t = "map"  ->
            <<"{">> \o JoinWith([i \in 1..Len(v.kvs) |->
                                  Quoted(v.kvs[i][1]) \o <<":", " ">> \o JsonDumps(v.kvs[i][2])],
                                <<",", " ">>)
                    \o <<"}">>

----------------------------------------------------------------------------
(* detect.py *)

\* _get_by_path: None is returned for a missing key, for a node that is no
\* dict, and is also what a JSON null at the path reads as.
RECURSIVE WalkPathPartial(_, _)
WalkPathPartial(cur, parts) ==
    IF parts = <<>> THEN cur
    ELSE IF cur.t = "map" /\ HasKey(cur, Head(parts))
         THEN WalkPathPartial(Lookup(cur, Head(parts)), Tail(parts))
         ELSE cur

RECURSIVE WalkPath(_, _)
WalkPath(cur, parts) ==
    IF parts = <<>> THEN cur
    ELSE IF cur.t = "map" /\ HasKey(cur, Head(parts))
         THEN WalkPath(Lookup(cur, Head(parts)), Tail(parts))
         ELSE JNull

GetByPath(obj, path) == WalkPath(obj, Split(path))

\* run_detections, lines 32-41: the source filter, the field lookup and the
\* case-insensitive substring test of one rule against one event payload
Haystack(value) == IF value.t = "str" THEN value.s ELSE JsonDumps(value)

Matches(r, source, raw) ==
    /\ ~(r.match_source # "" /\ r.match_source # "*" /\ r.match_source # source)
    /\ GetByPath(raw, r.match_field).t # "null"
    /\ Contains(Lower(r.match_contains), Lower(Haystack(GetByPath(raw, r.match_field))))

----------------------------------------------------------------------------
(* Inputs of the handlers *)

Sources == {"aws", "fw"}

\* Python's None where a str is optional (host, user)
None == "<None>"

\* `if x:` on an optional str
Truthy(x) == x # None /\ x # ""

\* Event payloads (Event.raw), by number
Payloads == <<
    \* {"u": {"n": "Root"}}
    JMap(<< <<<<"u">>, JMap(<< <<<<"n">>, JStr(<<"R","o","o","t">>)>> >>)>> >>),
    \* {"u": {"n": "al"}}
    JMap(<< <<<<"u">>, JMap(<< <<<<"n">>, JStr(<<"a","l">>)>> >>)>> >>),
    \* {"u": "x", "k": null}
    JMap(<< <<<<"u">>, JStr(<<"x">>)>>, <<<<"k">>, JNull>> >>),
    \* {"u": {"n": "root"}, "src_ip": " a ", "ip": ["b", "a", " ", 7], "src": "b"}
    JMap(<< <<<<"u">>, JMap(<< <<<<"n">>, JStr(<<"r","o","o","t">>)>> >>)>>,
            <<<<"s","r","c","_","i","p">>, JStr(<<" ","a"," ">>)>>,
            <<<<"i","p">>, JList(<<JStr(<<"b">>), JStr(<<"a">>), JStr(<<" ">>), JNum(7)>>)>>,
            <<<<"s","r","c">>, JStr(<<"b">>)>> >>),
    \* {"u": {"n": "root"}, "message": " hi ", "dst_ip": "c", "ip": "a"}
    JMap(<< <<<<"u">>, JMap(<< <<<<"n">>, JStr(<<"r","o","o","t">>)>> >>)>>,
            <<<<"m","e","s","s","a","g","e">>, JStr(<<" ","h","i"," ">>)>>,
            <<<<"d","s","t","_","i","p">>, JStr(<<"c">>)>>,
            <<<<"i","p">>, JStr(<<"a">>)>> >>),
    \* {"u": 7, "k": true}
    JMap(<< <<<<"u">>, JNum(7)>>, <<<<"k">>, JBool(TRUE)>> >>)
>>

PayloadIds == 1..Len(Payloads)

\* what POST /events takes: source and payload
EventInputs == {
    [source |-> "aws", host |-> None, user |-> None, raw |-> 1],
    [source |-> "fw", host |-> None, user |-> None, raw |-> 2]
}

\* what POST /rules takes
RuleInputs == {
    [name |-> "root-login", severity |-> "high", match_source |-> "*",
     match_field |-> <<"u", ".", "n">>, match_contains |-> <<"r","o","o","t">>],
    [name |-> "aws-user", severity |-> "low", match_source |-> "aws",
     match_field |-> <<"u", ".", "n">>, match_contains |-> <<>>]
}

\* rules of every kind of source filter, path and substring
MatchRuleInputs ==
    [name : {"any"}, severity : {"low"},
     match_source : {"", "*", "aws", "fw"},
     match_field : {<<"u", ".", "n">>, <<"u">>, <<"k">>, <<"u", ".", "n", ".", "z">>,
                    <<"i", "p">>, <<"x">>},
     match_contains : {<<>>, <<"r","o","o","t">>}]

\* Lines 32-41 on the rules and events POST /rules and POST /events are
\* given; the loop of run_detections reads their verdicts here
MatchTable ==
    [ri \in RuleInputs |->
        [ei \in {[source |-> e.source, raw |-> e.raw] : e \in EventInputs} |->
            Matches(ri, ei.source, Payloads[ei.raw])]]

\* the verdict on a rule and an event of the store: read in the table for
\* the rules of RuleInputs, computed for the rules of MatchRuleInputs
RuleMatchesEvent(r, ev) ==
    IF r.name = "any"
    THEN Matches(r, ev.source, Payloads[ev.raw])
    ELSE MatchTable[[name |-> r.name, severity |-> r.severity,
                     match_source |-> r.match_source, match_field |-> r.match_field,
                     match_contains |-> r.match_contains]]
                   [[source |-> ev.source, raw |-> ev.raw]]

----------------------------------------------------------------------------
(* Queries of the store *)

Min2(a, b) == IF a <= b THEN a ELSE b

\* ORDER BY received_at DESC; rows with equal keys come in the order the store
\* holds them, which is any order but the same one from query to query: `pos`
\* is a row's place among the rows of its received_at
RECURSIVE EventsDesc(_)
EventsDesc(S) ==
    IF S = {} THEN <<>>
    ELSE LET e == CHOOSE x \in S : \A y \in S :
                      \/ x.received_at > y.received_at
                      \/ (x.received_at = y.received_at /\ x.pos <= y.pos)
         IN <<e>> \o EventsDesc(S \ {e})

\* ORDER BY created_at DESC over Rule
RECURSIVE RulesDesc(_)
RulesDesc(S) ==
    IF S = {} THEN <<>>
    ELSE LET r == CHOOSE x \in S : \A y \in S :
                      \/ x.created_at > y.created_at
                      \/ (x.created_at = y.created_at /\ x.id <= y.id)
         IN <<r>> \o RulesDesc(S \ {r})

\* the query without its limit
EventWindowAll(evs, limit) == EventsDesc(evs)

\* select(Event).order_by(Event.received_at.desc()).limit(limit)
EventWindow(evs, limit) ==
    SubSeq(EventsDesc(evs), 1, Min2(limit, Cardinality(evs)))

\* the existence check left out
AlertExistsNever(als, rule_id, event_id) == FALSE

\* the existence check with the two ids taken for one another
AlertExistsSwapped(als, rule_id, event_id) ==
    \E a \in als : a.rule_id = event_id /\ a.event_id = rule_id

\* the existence check that still finds the alert a delete_alert has just
\* removed
AlertExistsOrJustDeleted(als, rule_id, event_id) ==
    \/ \E a \in als : a.rule_id = rule_id /\ a.event_id = event_id
    \/ result.status = "deleted"

\* select(Alert).where(event_id == ev.id).where(rule_id == r.id).first()
AlertExists(als, rule_id, event_id) ==
    \E a \in als : a.rule_id = rule_id /\ a.event_id = event_id

----------------------------------------------------------------------------
(* run_detections *)

\* f"{r.name}: {r.match_field} matched '{r.match_contains}'", as its parts
AlertSummary(r) == <<r.name, r.match_field, r.match_contains>>

\* the alert built with the event's id as its rule_id
NewAlertWrongRule(id, t, r, ev) ==
    [id |-> id, created_at |-> t, rule_id |-> ev.id, rule_name |-> r.name,
     severity |-> r.severity, event_id |-> ev.id, source |-> ev.source,
     host |-> ev.host, user |-> ev.user, summary |-> AlertSummary(r)]

\* Alert(rule_id=r.id, rule_name=r.name, severity=r.severity, event_id=ev.id,
\*       source=ev.source, ...), id and created_at by their default factories
NewAlert(id, t, r, ev) ==
    [id |-> id, created_at |-> t, rule_id |-> r.id, rule_name |-> r.name,
     severity |-> r.severity, event_id |-> ev.id, source |-> ev.source,
     host |-> ev.host, user |-> ev.user, summary |-> AlertSummary(r)]

\* for ev in events: for r in rules
DetectionPairs(evSeq, ruleSeq) ==
    [k \in 1..(Len(evSeq) * Len(ruleSeq)) |->
        <<evSeq[((k - 1) \div Len(ruleSeq)) + 1], ruleSeq[((k - 1) % Len(ruleSeq)) + 1]>>]

\* The loop of lines 30-62 over the pairs left, in a session that sees the
\* rows `visible` (the committed alerts; the ones it added itself are flushed
\* before each query): every way it can end, as the alerts added, the counter
\* `created`, the clock and the next alert id.
RECURSIVE DetectLoop(_, _, _, _, _, _)
DetectLoop(pairs, visible, added, created, t, nid) ==
    IF pairs = <<>>
    THEN {[added |-> added, created |-> created, now |-> t, nid |-> nid]}
    ELSE LET ev == Head(pairs)[1]
             r  == Head(pairs)[2]
         IN IF ~RuleMatchesEvent(r, ev)
               \/ AlertExists(visible \cup added, r.id, ev.id)
            THEN DetectLoop(Tail(pairs), visible, added, created, t, nid)
            ELSE UNION { DetectLoop(Tail(pairs), visible,
                                    added \cup {NewAlert(nid, t2, r, ev)},
                                    created + 1, t2, nid + 1)
                         : t2 \in UtcNow(t) }

\* run_detections(session, limit) in a session of its own, run to its end
DetectionOutcomes(limit) ==
    IF rules = {}
    THEN {[added |-> {}, created |-> 0, now |-> now, nid |-> nextId.alert]}
    ELSE DetectLoop(DetectionPairs(EventWindow(events, limit), RulesDesc(rules)),
                    alerts, {}, 0, now, nextId.alert)

----------------------------------------------------------------------------
(* The store after construction: init_db() creates empty tables *)

Idle == [pc |-> "idle"]

Sessions == {1, 2}

\* The response of a handler: "ok" with the row it returns, the value of
\* "status" in the dict it returns, "alerts_created" with the count, or
\* "not_found" for HTTP 404
Returned(status, n) == [status |-> status, n |-> n]

\* The response of get_incident_packet: the packet
ReturnedPacket(packet) == [status |-> "ok", n |-> 0, packet |-> packet]

Init ==
    /\ now = 0
    /\ rules = {}
    /\ events = {}
    /\ alerts = {}
    /\ incidents = {}
    /\ links = {}
    /\ actions = {}
    /\ evidence = {}
    /\ blobs = {}
    /\ nextId = [rule |-> 1, event |-> 1, alert |-> 1, incident |-> 1, action |-> 1, evidence |-> 1]
    /\ result = Returned("ok", 0)
    /\ written = {}
    /\ sess = [s \in Sessions |-> Idle]

----------------------------------------------------------------------------
(* main.py: events, rules, detections, alerts; each handler in one session, *)
(* run from its first query to its commit                                   *)

\* POST /rules
CreateRule ==
    /\ nextId.rule <= MaxRules
    /\ \E inp \in RuleInputs, t \in UtcNow(now) :
        /\ rules' = rules \cup
              {[id |-> nextId.rule, created_at |-> t, name |-> inp.name,
                severity |-> inp.severity, match_source |-> inp.match_source,
                match_field |-> inp.match_field, match_contains |-> inp.match_contains]}
        /\ now' = t
        /\ nextId' = [nextId EXCEPT !.rule = @ + 1]
        /\ result' = Returned("ok", 0)
    /\ UNCHANGED <<events, alerts, incidents, links, actions, evidence, blobs, written, sess>>

\* DELETE /rules/{rule_id}
DeleteRule ==
    /\ \E rule_id \in 1..MaxRules :
        IF \E r \in rules : r.id = rule_id
        THEN /\ rules' = {r \in rules : r.id # rule_id}
             /\ result' = Returned("deleted", 0)
        ELSE /\ rules' = rules
             /\ result' = Returned("not_found", 0)
    /\ UNCHANGED <<now, events, alerts, incidents, links, actions, evidence, blobs,
                   nextId, written, sess>>

\* session.add(ev); session.commit(): the row takes some place k among the
\* rows with its received_at
InsertEvent(evs, ev, k) ==
    {IF e.received_at = ev.received_at /\ e.pos >= k
     THEN [e EXCEPT !.pos = @ + 1] ELSE e : e \in evs}
    \cup {[ev EXCEPT !.pos = k]}

\* POST /events
IngestEvent ==
    /\ nextId.event <= MaxEvents
    /\ \E inp \in EventInputs, t \in UtcNow(now) :
       \E k \in 1..(Cardinality({e \in events : e.received_at = t}) + 1) :
        /\ events' = InsertEvent(events,
                         [id |-> nextId.event, received_at |-> t, pos |-> k,
                          source |-> inp.source, host |-> inp.host,
                          user |-> inp.user, raw |-> inp.raw], k)
        /\ now' = t
        /\ nextId' = [nextId EXCEPT !.event = @ + 1]
        /\ result' = Returned("ok", 0)
    /\ UNCHANGED <<rules, alerts, incidents, links, actions, evidence, blobs,
                   written, sess>>

\* POST /detections/run
RunDetections ==
    /\ \E o \in DetectionOutcomes(DetectionLimit) :
        /\ o.nid <= MaxAlerts + 1
        /\ alerts' = alerts \cup o.added
        /\ now' = o.now
        /\ nextId' = [nextId EXCEPT !.alert = o.nid]
        /\ result' = Returned("alerts_created", o.created)
    /\ UNCHANGED <<rules, events, incidents, links, actions, evidence, blobs, written, sess>>

\* DELETE /alerts/{alert_id}
DeleteAlertOf(alert_id) ==
    /\ IF \E a \in alerts : a.id = alert_id
       THEN /\ links' = {x \in links : x.alert_id # alert_id}
            /\ alerts' = {a \in alerts : a.id # alert_id}
            /\ result' = Returned("deleted", 0)
       ELSE /\ UNCHANGED <<links, alerts>>
            /\ result' = Returned("not_found", 0)
    /\ UNCHANGED <<now, rules, events, incidents, actions, evidence, blobs,
                   nextId, written, sess>>

DeleteAlert == \E alert_id \in 1..MaxAlerts : DeleteAlertOf(alert_id)

NextDetect ==
    \/ CreateRule
    \/ DeleteRule
    \/ IngestEvent
    \/ RunDetections
    \/ DeleteAlert

SpecDetect == Init /\ [][NextDetect]_vars

----------------------------------------------------------------------------
(* reporting.py: the incident packet *)

\* datetime.isoformat() of a datetime read from the store: the fields down to
\* the seconds in fixed width, and the fraction of the second only when it is
\* not zero. A datetime t is t half-seconds.
IsoFormat(t) ==
    <<Digits[((t \div 2) \div 10) + 1], Digits[((t \div 2) % 10) + 1]>>
    \o (IF t % 2 = 1 THEN <<".", "5">> ELSE <<>>)

\* _safe_iso, on a datetime
SafeIso(dt) == IsoFormat(dt)

\* the characters of IsoFormat in the order of their code points
IsoChars == <<".">> \o Digits

CharRank(c) == CHOOSE i \in 1..Len(IsoChars) : IsoChars[i] = c

\* a < b on str, over the characters of IsoFormat
RECURSIVE StrLess(_, _)
StrLess(a, b) ==
    IF b = <<>> THEN FALSE
    ELSE IF a = <<>> THEN TRUE
    ELSE IF Head(a) = Head(b) THEN StrLess(Tail(a), Tail(b))
    ELSE CharRank(Head(a)) < CharRank(Head(b))

IsSpace(c) == c \in {" ", "\t", "\n", "\r"}

\* str.strip()
RECURSIVE LStrip(_)
LStrip(s) == IF s # <<>> /\ IsSpace(Head(s)) THEN LStrip(Tail(s)) ELSE s

RECURSIVE RStrip(_)
RStrip(s) ==
    IF s # <<>> /\ IsSpace(s[Len(s)]) THEN RStrip(SubSeq(s, 1, Len(s) - 1)) ELSE s

Strip(s) == RStrip(LStrip(s))

\* s[:n]
Truncate(s, n) == SubSeq(s, 1, Min2(Len(s), n))

SummaryCap == 220

SummaryKeys == <<
    <<"m","e","s","s","a","g","e">>,
    <<"s","u","m","m","a","r","y">>,
    <<"e","v","e","n","t">>,
    <<"m","s","g">>,
    <<"l","o","g">>,
    <<"d","e","s","c","r","i","p","t","i","o","n">> >>

\* raw.get(k)
DictGet(raw, k) == IF HasKey(raw, k) THEN Lookup(raw, k) ELSE JNull

\* _event_summary: the first of the common fields that is a non-blank str,
\* else the start of the JSON text of the payload
EventSummary(raw) ==
    LET hits == {i \in 1..Len(SummaryKeys) :
                    /\ DictGet(raw, SummaryKeys[i]).t = "str"
                    /\ Strip(DictGet(raw, SummaryKeys[i]).s) # <<>>}
    IN IF hits # {}
       THEN Truncate(Strip(DictGet(raw, SummaryKeys[CHOOSE i \in hits :
                                                      \A j \in hits : i <= j]).s),
                     SummaryCap)
       ELSE Truncate(JsonDumps(raw), SummaryCap)

IpKeys == <<
    <<"s","r","c","_","i","p">>,
    <<"s","o","u","r","c","e","_","i","p">>,
    <<"c","l","i","e","n","t","_","i","p">>,
    <<"r","e","m","o","t","e","_","i","p">>,
    <<"i","p">>,
    <<"s","r","c">>,
    <<"d","s","t","_","i","p">>,
    <<"d","e","s","t","_","i","p">> >>

\* the loop body of _extract_ips for one value v = raw.get(k)
IpsOfValue(v) ==
    IF v.t = "str" /\ Strip(v.s) # <<>> THEN <<Strip(v.s)>>
    ELSE IF v.t = "list"
         THEN Concat([i \in 1..Len(v.xs) |->
                        IF v.xs[i].t = "str" /\ Strip(v.xs[i].s) # <<>>
                        THEN <<Strip(v.xs[i].s)>> ELSE <<>>])
         ELSE <<>>

\* the items with nothing left out
UniqFromKept(items, seen, empty) == items

\* the de-duplication loops of _extract_ips and _uniq: the first occurrence
\* of every item that is not empty, in order
RECURSIVE UniqFrom(_, _, _)
UniqFrom(items, seen, empty) ==
    IF items = <<>> THEN <<>>
    ELSE IF Head(items) \in empty \/ Head(items) \in seen
         THEN UniqFrom(Tail(items), seen, empty)
         ELSE <<Head(items)>> \o UniqFrom(Tail(items), seen \cup {Head(items)}, empty)

\* _extract_ips
ExtractIps(raw) ==
    UniqFrom(Concat([i \in 1..Len(IpKeys) |-> IpsOfValue(DictGet(raw, IpKeys[i]))]),
             {}, {})

\* _uniq over optional str values (hosts, users, sources)
UniqStr(items) == UniqFrom(items, {}, {None, ""})

\* _uniq over the ips
UniqIps(items) == UniqFrom(items, {}, {<<>>})

\* a set of rows as the sequence ORDER BY created_at ASC returns; rows of
\* equal created_at in the order of their ids
RECURSIVE ByCreatedAsc(_)
ByCreatedAsc(S) ==
    IF S = {} THEN <<>>
    ELSE LET r == CHOOSE x \in S : \A y \in S :
                      \/ x.created_at < y.created_at
                      \/ (x.created_at = y.created_at /\ x.id <= y.id)
         IN <<r>> \o ByCreatedAsc(S \ {r})

\* the entry put before the entries of its time
RECURSIVE InsertByTimeBeforeEqual(_, _)
InsertByTimeBeforeEqual(sorted, x) ==
    IF sorted = <<>> THEN <<x>>
    ELSE IF ~StrLess(Head(sorted).time, x.time)
         THEN <<x>> \o sorted
         ELSE <<Head(sorted)>> \o InsertByTimeBeforeEqual(Tail(sorted), x)

\* list.sort(key=lambda t: t["time"]): stable, by the text of the time
RECURSIVE InsertByTime(_, _)
InsertByTime(sorted, x) ==
    IF sorted = <<>> THEN <<x>>
    ELSE IF StrLess(x.time, Head(sorted).time)
         THEN <<x>> \o sorted
         ELSE <<Head(sorted)>> \o InsertByTime(Tail(sorted), x)

\* the timeline left as it was appended
SortByTimeSkipped(xs) == xs

RECURSIVE SortByTime(_)
SortByTime(xs) ==
    IF xs = <<>> THEN <<>>
    ELSE InsertByTime(SortByTime(SubSeq(xs, 1, Len(xs) - 1)), xs[Len(xs)])

\* the first of the times
SeqMinHead(ts) == ts[1]

SeqMin(ts) == CHOOSE x \in {ts[i] : i \in 1..Len(ts)} :
                 \A i \in 1..Len(ts) : x <= ts[i]

SeqMax(ts) == CHOOSE x \in {ts[i] : i \in 1..Len(ts)} :
                 \A i \in 1..Len(ts) : x >= ts[i]

\* events_by_id.get(a.event_id): the event as a one-element sequence, or <<>>
EventOf(evs, a) ==
    IF \E e \in evs : e.id = a.event_id
    THEN <<CHOOSE e \in evs : e.id = a.event_id>>
    ELSE <<>>

\* build_incident_packet, for an incident that exists, over the rows given
PacketOf(inc, als, acts, evs) ==
    LET alertSeq == ByCreatedAsc(als)
        actionSeq == ByCreatedAsc(acts)
        perAlert(f(_), g(_)) ==
            Concat([i \in 1..Len(alertSeq) |->
                      f(alertSeq[i]) \o
                      (IF EventOf(evs, alertSeq[i]) = <<>> THEN <<>>
                       ELSE g(EventOf(evs, alertSeq[i])[1]))])
        aTime(a) == <<a.created_at>>
        eTime(e) == <<e.received_at>>
        aHost(a) == <<a.host>>
        eHost(e) == <<e.host>>
        aUser(a) == <<a.user>>
        eUser(e) == <<e.user>>
        aSource(a) == <<a.source>>
        eSource(e) == <<e.source>>
        aNone(a) == <<>>
        eIps(e) == IF Payloads[e.raw].t = "map" THEN ExtractIps(Payloads[e.raw]) ELSE <<>>
        times == perAlert(aTime, eTime)
        aEntry(a) == <<[time |-> SafeIso(a.created_at), type |-> "alert",
                        source |-> a.source, host |-> a.host, user |-> a.user,
                        summary |-> <<a.severity, a.rule_name, a.summary>>]>>
        eEntry(e) == IF Payloads[e.raw].t = "map"
                     THEN <<[time |-> SafeIso(e.received_at), type |-> "event",
                             source |-> e.source, host |-> e.host, user |-> e.user,
                             summary |-> EventSummary(Payloads[e.raw])]>>
                     ELSE <<>>
    IN [incident |-> [id |-> inc.id, title |-> inc.title, severity |-> inc.severity,
                      status |-> inc.status, description |-> inc.description,
                      created_at |-> SafeIso(inc.created_at),
                      updated_at |-> SafeIso(inc.updated_at)],
        scope |-> [time_window |->
                      IF times = <<>>
                      THEN [start |-> SafeIso(inc.created_at), end |-> SafeIso(inc.updated_at)]
                      ELSE [start |-> SafeIso(SeqMin(times)), end |-> SafeIso(SeqMax(times))],
                   hosts |-> UniqStr(perAlert(aHost, eHost)),
                   users |-> UniqStr(perAlert(aUser, eUser)),
                   sources |-> UniqStr(perAlert(aSource, eSource)),
                   ips |-> UniqIps(perAlert(aNone, eIps))],
        alerts |-> [i \in 1..Len(alertSeq) |->
                      [id |-> alertSeq[i].id, created_at |-> SafeIso(alertSeq[i].created_at),
                       severity |-> alertSeq[i].severity, rule_name |-> alertSeq[i].rule_name,
                       summary |-> alertSeq[i].summary, event_id |-> alertSeq[i].event_id,
                       host |-> alertSeq[i].host, user |-> alertSeq[i].user,
                       source |-> alertSeq[i].source]],
        timeline |-> SortByTime(perAlert(aEntry, eEntry)),
        actions |-> [i \in 1..Len(actionSeq) |->
                      [id |-> actionSeq[i].id, incident_id |-> actionSeq[i].incident_id,
                       created_at |-> SafeIso(actionSeq[i].created_at),
                       actor |-> actionSeq[i].actor, action_type |-> actionSeq[i].action_type,
                       summary |-> actionSeq[i].summary, details |-> actionSeq[i].details]]]

----------------------------------------------------------------------------
(* reporting.py: the evidence writer *)

\* json.dumps(packet, indent=2, ensure_ascii=False, default=str).encode("utf-8"):
\* the text is a function of the packet alone and differs for packets that
\* differ; the packet stands for its text
Serialize(packet) == [json |-> packet]

\* hashlib.sha256(payload).hexdigest(): payloads that differ have digests
\* that differ
Sha256(payload) == [sha256 |-> payload]

\* len(payload): the text grows with every entry of the packet
ByteLen(payload) ==
    1 + Len(payload.json.alerts) + Len(payload.json.timeline)
      + Len(payload.json.actions)

\* f"{incident_id}/incident-packet.json"
PacketFilename(incident_id) == <<incident_id, "incident-packet.json">>

\* the row is written whatever the table holds
EvidenceExistsNever(rows, incident_id, filename, sha) == FALSE

\* lines 236-241: the row with this incident, filename and digest
EvidenceExists(rows, incident_id, filename, sha) ==
    \E e \in rows :
        e.incident_id = incident_id /\ e.filename = filename /\ e.sha256 = sha

\* EvidenceFile(incident_id, filename, content_type, sha256, size_bytes)
NewEvidence(id, t, incident_id, payload) ==
    [id |-> id, incident_id |-> incident_id, created_at |-> t,
     filename |-> PacketFilename(incident_id), content_type |-> "application/json",
     sha256 |-> Sha256(payload), size_bytes |-> ByteLen(payload)]

\* file_path.write_bytes(payload)
WriteBlob(files, incident_id, payload) ==
    {f \in files : f.path # PacketFilename(incident_id)}
    \cup {[path |-> PacketFilename(incident_id), bytes |-> payload]}

----------------------------------------------------------------------------
(* main.py: incidents; each handler in one session, run to its end *)

IncidentIds == 1..MaxIncidents

AlertIds == 1..MaxAlerts

\* IncidentCreate.alert_ids: no id, one id, or two ids (the same one twice too)
AlertIdLists ==
    {<<>>} \cup {<<a>> : a \in AlertIds} \cup {<<a, b>> : a, b \in AlertIds}

IncidentOf(i) == CHOOSE inc \in incidents : inc.id = i

IncidentExists(i) == \E inc \in incidents : inc.id = i

\* the lookup that finds nothing
LinkExistsNever(ls, i, a) == FALSE

\* lines 370-374: the link (incident_id, alert_id)
LinkExists(ls, i, a) == \E x \in ls : x.incident_id = i /\ x.alert_id = a

\* The loop of create_incident, lines 290-294, over the ids left: every way
\* it can end. A second IncidentAlert with the primary key of one added
\* before fails the flush, and the commit of line 295 is never reached.
RECURSIVE LinkLoop(_, _, _, _)
LinkLoop(ids, i, added, t) ==
    IF ids = <<>> THEN {[failed |-> FALSE, added |-> added, now |-> t]}
    ELSE IF ~ \E a \in alerts : a.id = Head(ids)
         THEN LinkLoop(Tail(ids), i, added, t)
         ELSE IF LinkExists(added, i, Head(ids))
              THEN {[failed |-> TRUE, added |-> {}, now |-> t]}
              ELSE UNION { LinkLoop(Tail(ids), i,
                                    added \cup {[incident_id |-> i, alert_id |-> Head(ids),
                                                 added_at |-> t2]}, t2)
                           : t2 \in UtcNow(t) }

\* POST /incidents
CreateIncident ==
    /\ nextId.incident <= MaxIncidents
    /\ \E ids \in AlertIdLists, t0 \in UtcNow(now) :
       \E t1 \in UtcNow(t0) :
       \E o \in LinkLoop(ids, nextId.incident, {}, t1) :
        /\ incidents' = incidents \cup
              {[id |-> nextId.incident, created_at |-> t0, updated_at |-> t1,
                title |-> "incident", severity |-> "medium", status |-> "open",
                description |-> ""]}
        /\ links' = links \cup o.added
        /\ now' = o.now
        /\ nextId' = [nextId EXCEPT !.incident = @ + 1]
        /\ result' = IF o.failed THEN Returned("error", 0) ELSE Returned("ok", 0)
    /\ UNCHANGED <<rules, events, alerts, actions, evidence, blobs, written, sess>>

\* GET /incidents/{incident_id}
GetIncidentOf(i) ==
    /\ result' = IF IncidentExists(i) THEN Returned("ok", 0) ELSE Returned("not_found", 0)
    /\ UNCHANGED <<now, rules, events, alerts, incidents, links, actions, evidence,
                   blobs, nextId, written, sess>>

GetIncident == \E i \in IncidentIds : GetIncidentOf(i)

\* the cascade of delete_incident without the links
LinksAfterIncidentDeleteKept(ls, i) == ls

\* the cascade of delete_incident over the links of every incident
LinksAfterIncidentDeleteAll(ls, i) == {}

\* lines 331-334: the links of the incident are deleted
LinksAfterIncidentDelete(ls, i) == {x \in ls : x.incident_id # i}

\* DELETE /incidents/{incident_id}
DeleteIncidentOf(i) ==
    /\ IF IncidentExists(i)
       THEN /\ links' = LinksAfterIncidentDelete(links, i)
            /\ actions' = {x \in actions : x.incident_id # i}
            /\ incidents' = {inc \in incidents : inc.id # i}
            /\ result' = Returned("deleted", 0)
       ELSE /\ UNCHANGED <<links, actions, incidents>>
            /\ result' = Returned("not_found", 0)
    /\ UNCHANGED <<now, rules, events, alerts, evidence, blobs, nextId, written, sess>>

DeleteIncident == \E i \in IncidentIds : DeleteIncidentOf(i)

\* the row of the incident with updated_at = utc_now()
Touched(inc, t) == [inc EXCEPT !.updated_at = t]

\* POST /incidents/{incident_id}/alerts
AddAlertTo(i, a) ==
    /\ IF ~IncidentExists(i) \/ ~ \E x \in alerts : x.id = a
       THEN /\ UNCHANGED <<links, incidents, now>>
            /\ result' = Returned("not_found", 0)
       ELSE IF LinkExists(links, i, a)
       THEN /\ UNCHANGED <<links, incidents, now>>
            /\ result' = Returned("already-linked", 0)
       ELSE \E t1 \in UtcNow(now) : \E t2 \in UtcNow(t1) :
            /\ links' = links \cup {[incident_id |-> i, alert_id |-> a, added_at |-> t1]}
            /\ incidents' = (incidents \ {IncidentOf(i)}) \cup {Touched(IncidentOf(i), t2)}
            /\ now' = t2
            /\ result' = Returned("linked", 0)
    /\ UNCHANGED <<rules, events, alerts, actions, evidence, blobs, nextId, written, sess>>

AddAlertToIncident == \E i \in IncidentIds, a \in AlertIds : AddAlertTo(i, a)

\* POST /incidents/{incident_id}/actions
CreateIncidentActionOf(i) ==
    /\ IF ~IncidentExists(i)
       THEN /\ UNCHANGED <<actions, incidents, now, nextId>>
            /\ result' = Returned("not_found", 0)
       ELSE /\ nextId.action <= MaxActions
            /\ \E t1 \in UtcNow(now) : \E t2 \in UtcNow(t1) :
                /\ actions' = actions \cup
                      {[id |-> nextId.action, incident_id |-> i, created_at |-> t1,
                        actor |-> None, action_type |-> "note", summary |-> "note",
                        details |-> None]}
                /\ incidents' = (incidents \ {IncidentOf(i)}) \cup {Touched(IncidentOf(i), t2)}
                /\ now' = t2
            /\ nextId' = [nextId EXCEPT !.action = @ + 1]
            /\ result' = Returned("ok", 0)
    /\ UNCHANGED <<rules, events, alerts, links, evidence, blobs, written, sess>>

CreateIncidentAction == \E i \in IncidentIds : CreateIncidentActionOf(i)

\* the status written back as it was not
ClosedRowToggled(inc, t) ==
    [inc EXCEPT !.status = IF @ = "open" THEN "closed" ELSE "open", !.updated_at = t]

\* lines 435-436: inc.status = "closed"; inc.updated_at = utc_now()
ClosedRow(inc, t) == [inc EXCEPT !.status = "closed", !.updated_at = t]

\* POST /incidents/{incident_id}/close
CloseIncidentOf(i) ==
    /\ IF ~IncidentExists(i)
       THEN /\ UNCHANGED <<incidents, now>>
            /\ result' = Returned("not_found", 0)
       ELSE \E t \in UtcNow(now) :
            /\ incidents' = (incidents \ {IncidentOf(i)}) \cup {ClosedRow(IncidentOf(i), t)}
            /\ now' = t
            /\ result' = Returned("ok", 0)
    /\ UNCHANGED <<rules, events, alerts, links, actions, evidence, blobs, nextId,
                   written, sess>>

CloseIncident == \E i \in IncidentIds : CloseIncidentOf(i)

\* build_incident_packet(session, incident_id) on the rows of the store
BuildIncidentPacket(i) ==
    PacketOf(IncidentOf(i),
             {a \in alerts : LinkExists(links, i, a.id)},
             {x \in actions : x.incident_id = i},
             events)

\* GET /incidents/{incident_id}/packet: the ValueError of
\* build_incident_packet is caught and answered with 404
GetIncidentPacketOf(i) ==
    /\ result' = IF IncidentExists(i)
                 THEN ReturnedPacket(BuildIncidentPacket(i))
                 ELSE Returned("not_found", 0)
    /\ UNCHANGED <<now, rules, events, alerts, incidents, links, actions, evidence,
                   blobs, nextId, written, sess>>

GetIncidentPacket == \E i \in IncidentIds : GetIncidentPacketOf(i)

\* the history of the payloads written: a payload written before is marked as
\* written again
Recorded(hist, i, payload) ==
    IF \E w \in hist : w.incident_id = i /\ w.payload = payload
    THEN {IF w.incident_id = i /\ w.payload = payload
          THEN [w EXCEPT !.again = TRUE] ELSE w : w \in hist}
    ELSE hist \cup {[incident_id |-> i, payload |-> payload, again |-> FALSE]}

\* write_packet_evidence(session, incident_id, packet), run to its end
WritePacketEvidence(i, packet) ==
    LET payload == Serialize(packet)
    IN /\ blobs' = WriteBlob(blobs, i, payload)
       /\ written' = Recorded(written, i, payload)
       /\ IF EvidenceExists(evidence, i, PacketFilename(i), Sha256(payload))
          THEN UNCHANGED <<evidence, nextId, now>>
          ELSE /\ nextId.evidence <= MaxEvidence
               /\ \E t \in UtcNow(now) :
                   /\ evidence' = evidence \cup {NewEvidence(nextId.evidence, t, i, payload)}
                   /\ now' = t
               /\ nextId' = [nextId EXCEPT !.evidence = @ + 1]

\* export_markdown and export_pdf up to the rendering: build_incident_packet
\* raises ValueError for an unknown incident, which neither handler catches
Export(i) ==
    /\ IF IncidentExists(i)
       THEN /\ WritePacketEvidence(i, BuildIncidentPacket(i))
            /\ result' = Returned("ok", 0)
       ELSE /\ UNCHANGED <<blobs, written, evidence, nextId, now>>
            /\ result' = Returned("error", 0)
    /\ UNCHANGED <<rules, events, alerts, incidents, links, actions, sess>>

\* GET /incidents/{incident_id}/report/markdown
ExportMarkdown == \E i \in IncidentIds : Export(i)

\* GET /incidents/{incident_id}/report/pdf
ExportPdf == \E i \in IncidentIds : Export(i)

\* the rows create_rule, create_rule and ingest_event leave
SeedRules ==
    {[id |-> k, created_at |-> 0, name |-> ri.name, severity |-> ri.severity,
      match_source |-> ri.match_source, match_field |-> ri.match_field,
      match_contains |-> ri.match_contains]
     : <<k, ri>> \in {<<1, CHOOSE r \in RuleInputs : r.match_source = "*">>,
                      <<2, CHOOSE r \in RuleInputs : r.match_source = "aws">>}}

SeedEvents ==
    {[id |-> 1, received_at |-> 0, pos |-> 1, source |-> "aws",
      host |-> None, user |-> None, raw |-> 1]}

\* the rows run_detections adds to them: one alert for each rule
SeedAlerts ==
    {NewAlert(r.id, 0, r, e) : r \in SeedRules, e \in SeedEvents}

\* A store with rules and an event in it, some time after they were made (the
\* clock has one tick left)
InitIncident ==
    /\ now = MaxTime - 1
    /\ rules = SeedRules
    /\ events = SeedEvents
    /\ alerts = {}
    /\ incidents = {}
    /\ links = {}
    /\ actions = {}
    /\ evidence = {}
    /\ blobs = {}
    /\ nextId = [rule |-> 3, event |-> 2, alert |-> 1, incident |-> 1, action |-> 1,
                 evidence |-> 1]
    /\ result = Returned("ok", 0)
    /\ written = {}
    /\ sess = [s \in Sessions |-> Idle]

NextIncident ==
    \/ RunDetections
    \/ DeleteAlert
    \/ CreateIncident
    \/ GetIncident
    \/ DeleteIncident
    \/ AddAlertToIncident
    \/ CreateIncidentAction

SpecIncident == InitIncident /\ [][NextIncident]_vars

----------------------------------------------------------------------------
(* Incidents and their reports, from a store that holds the alerts *)

\* The store after run_detections: the rules, the event and their alerts
InitEvidence ==
    /\ now = MaxTime - 1
    /\ rules = SeedRules
    /\ events = SeedEvents
    /\ alerts = SeedAlerts
    /\ incidents = {}
    /\ links = {}
    /\ actions = {}
    /\ evidence = {}
    /\ blobs = {}
    /\ nextId = [rule |-> 3, event |-> 2, alert |-> 3, incident |-> 1, action |-> 1,
                 evidence |-> 1]
    /\ result = Returned("alerts_created", 2)
    /\ written = {}
    /\ sess = [s \in Sessions |-> Idle]

NextEvidence ==
    \/ RunDetections
    \/ CreateIncident
    \/ AddAlertToIncident
    \/ CreateIncidentAction
    \/ CloseIncident
    \/ ExportMarkdown
    \/ ExportPdf

SpecEvidence == InitEvidence /\ [][NextEvidence]_vars

----------------------------------------------------------------------------
(* The reports of one incident *)

\* the row create_incident leaves
SeedIncidents ==
    {[id |-> 1, created_at |-> 0, updated_at |-> 0, title |-> "incident",
      severity |-> "medium", status |-> "open", description |-> ""]}

\* The store after run_detections and create_incident
InitWriter ==
    /\ now = MaxTime - 1
    /\ rules = SeedRules
    /\ events = SeedEvents
    /\ alerts = SeedAlerts
    /\ incidents = SeedIncidents
    /\ links = {}
    /\ actions = {}
    /\ evidence = {}
    /\ blobs = {}
    /\ nextId = [rule |-> 3, event |-> 2, alert |-> 3, incident |-> 2, action |-> 1,
                 evidence |-> 1]
    /\ result = Returned("ok", 0)
    /\ written = {}
    /\ sess = [s \in Sessions |-> Idle]

NextWriter ==
    \/ AddAlertToIncident
    \/ CloseIncident
    \/ ExportMarkdown
    \/ ExportPdf

SpecWriter == InitWriter /\ [][NextWriter]_vars

----------------------------------------------------------------------------
(* Two runs of run_detections, each in a session of its own, statement by    *)
(* statement: a query sees the rows committed when it runs and the rows its  *)
(* own session has added                                                     *)

\* lines 23-28: the rules and the window of events are read
DetectBegin(s) ==
    /\ sess[s].pc = "idle"
    /\ IF rules = {}
       THEN /\ result' = Returned("alerts_created", 0)
            /\ UNCHANGED sess
       ELSE /\ sess' = [sess EXCEPT ![s] =
                  [pc |-> "detect",
                   pairs |-> DetectionPairs(EventWindow(events, DetectionLimit),
                                            RulesDesc(rules)),
                   added |-> {}, created |-> 0]]
            /\ UNCHANGED result
    /\ UNCHANGED <<now, rules, events, alerts, incidents, links, actions, evidence,
                   blobs, nextId, written>>

\* lines 30-62, one turn of the inner loop: the pair is skipped, or the alert
\* is added to the session
DetectStep(s) ==
    /\ sess[s].pc = "detect"
    /\ sess[s].pairs # <<>>
    /\ LET ev == Head(sess[s].pairs)[1]
           r  == Head(sess[s].pairs)[2]
       IN IF ~RuleMatchesEvent(r, ev)
             \/ AlertExists(alerts \cup sess[s].added, r.id, ev.id)
          THEN /\ sess' = [sess EXCEPT ![s].pairs = Tail(@)]
               /\ UNCHANGED <<now, nextId>>
          ELSE \E t \in UtcNow(now) :
               /\ nextId.alert <= 2 * MaxAlerts
               /\ sess' = [sess EXCEPT ![s].pairs = Tail(@),
                                        ![s].added = @ \cup {NewAlert(nextId.alert, t, r, ev)},
                                        ![s].created = @ + 1]
               /\ now' = t
               /\ nextId' = [nextId EXCEPT !.alert = @ + 1]
    /\ UNCHANGED <<rules, events, alerts, incidents, links, actions, evidence,
                   blobs, result, written>>

\* lines 64-67: if created: session.commit(); return created
DetectCommit(s) ==
    /\ sess[s].pc = "detect"
    /\ sess[s].pairs = <<>>
    /\ alerts' = alerts \cup sess[s].added
    /\ result' = Returned("alerts_created", sess[s].created)
    /\ sess' = [sess EXCEPT ![s] = Idle]
    /\ UNCHANGED <<now, rules, events, incidents, links, actions, evidence, blobs,
                   nextId, written>>

DetectBeginAny == \E s \in Sessions : DetectBegin(s)

DetectStepAny == \E s \in Sessions : DetectStep(s)

DetectCommitAny == \E s \in Sessions : DetectCommit(s)

NextDetectRace ==
    \/ DetectBeginAny
    \/ DetectStepAny
    \/ DetectCommitAny

SpecDetectRace == InitIncident /\ [][NextDetectRace]_vars

----------------------------------------------------------------------------
(* Two report generations, each in a session of its own, statement by        *)
(* statement                                                                 *)

\* export_markdown, export_pdf: packet = build_incident_packet(...), and in
\* write_packet_evidence the payload is serialized
ExportBegin(s) ==
    /\ sess[s].pc = "idle"
    /\ \E i \in IncidentIds :
        IF IncidentExists(i)
        THEN /\ sess' = [sess EXCEPT ![s] =
                   [pc |-> "built", incident_id |-> i,
                    payload |-> Serialize(BuildIncidentPacket(i))]]
             /\ UNCHANGED result
        ELSE /\ result' = Returned("error", 0)
             /\ UNCHANGED sess
    /\ UNCHANGED <<now, rules, events, alerts, incidents, links, actions, evidence,
                   blobs, nextId, written>>

\* reporting.py lines 234-241: the file is written and the row looked up
ExportCheck(s) ==
    /\ sess[s].pc = "built"
    /\ blobs' = WriteBlob(blobs, sess[s].incident_id, sess[s].payload)
    /\ written' = Recorded(written, sess[s].incident_id, sess[s].payload)
    /\ sess' = [sess EXCEPT ![s] =
          [pc |-> "checked", incident_id |-> sess[s].incident_id,
           payload |-> sess[s].payload,
           existing |-> EvidenceExists(evidence, sess[s].incident_id,
                                       PacketFilename(sess[s].incident_id),
                                       Sha256(sess[s].payload))]]
    /\ UNCHANGED <<now, rules, events, alerts, incidents, links, actions, evidence,
                   nextId, result>>

\* reporting.py lines 243-252: if not existing, the row is added and committed;
\* the handler renders the report and returns
ExportFinish(s) ==
    /\ sess[s].pc = "checked"
    /\ IF sess[s].existing
       THEN UNCHANGED <<evidence, nextId, now>>
       ELSE /\ nextId.evidence <= MaxEvidence
            /\ \E t \in UtcNow(now) :
                /\ evidence' = evidence \cup
                      {NewEvidence(nextId.evidence, t, sess[s].incident_id, sess[s].payload)}
                /\ now' = t
            /\ nextId' = [nextId EXCEPT !.evidence = @ + 1]
    /\ result' = Returned("ok", 0)
    /\ sess' = [sess EXCEPT ![s] = Idle]
    /\ UNCHANGED <<rules, events, alerts, incidents, links, actions, blobs, written>>

ExportBeginAny == \E s \in Sessions : ExportBegin(s)

ExportCheckAny == \E s \in Sessions : ExportCheck(s)

ExportFinishAny == \E s \in Sessions : ExportFinish(s)

NextExportRace ==
    \/ ExportBeginAny
    \/ ExportCheckAny
    \/ ExportFinishAny
    \/ CloseIncident

SpecExportRace == InitWriter /\ [][NextExportRace]_vars

----------------------------------------------------------------------------
(* Alerts and the rows they reference *)

\* the alerts the window's matching pairs already have
AlertedInWindow ==
    {a \in alerts :
        /\ \E r \in rules : r.id = a.rule_id
        /\ \E i \in 1..Len(EventWindow(events, DetectionLimit)) :
              EventWindow(events, DetectionLimit)[i].id = a.event_id}

\* C1: in every state reached by create_rule, delete_rule, ingest_event,
\* run_detections and delete_alert run one after the other, no two Alert rows
\* have the same (rule_id, event_id).
C1_OneAlertPerPair ==
    \A a, b \in alerts :
        (a.rule_id = b.rule_id /\ a.event_id = b.event_id) => a = b

\* C1, the case: a run has just met a pair whose alert exists and added nothing.
C1_Witness ==
    /\ result = Returned("alerts_created", 0)
    /\ AlertedInWindow # {}

\* C3: a run of run_detections that follows a run of run_detections, with no
\* other handler in between, adds no Alert row and returns 0.
C3_SecondRunAddsNothing ==
    [][(result.status = "alerts_created" /\ RunDetections)
        => (alerts' = alerts /\ result' = Returned("alerts_created", 0))]_vars

\* C3, the case: a run returned 0 over a window whose matching pairs all have
\* their alert, one of them made by an earlier run.
C3_Witness ==
    /\ result.status = "alerts_created"
    /\ result.n = 0
    /\ \E a \in AlertedInWindow : a.created_at <= now
    /\ Cardinality(alerts) >= 1

\* C7 as stated: every Alert's event_id is the id of a stored Event and its
\* rule_id the id of a stored Rule.
C7_AlertsReferenceStoredRows ==
    \A a \in alerts :
        /\ \E e \in events : e.id = a.event_id
        /\ \E r \in rules : r.id = a.rule_id

\* C7 as amended: every Alert's event_id is the id of a stored Event, and its
\* rule_id is the id of a Rule that was stored when the alert was created
\* (delete_rule leaves the alerts of the rule in place).
C7_AlertsReferenceRowsAtCreation ==
    [][/\ \A a \in alerts' : \E e \in events' : e.id = a.event_id
       /\ \A a \in alerts' \ alerts : \E r \in rules : r.id = a.rule_id]_vars

\* C7, the case: an alert outlives its rule.
C7_Witness ==
    \E a \in alerts : ~ \E r \in rules : r.id = a.rule_id

----------------------------------------------------------------------------
(* Runs of run_detections that interleave *)

AllIdle == \A s \in Sessions : sess[s].pc = "idle"

\* C2: when two runs of run_detections, each in a session of its own, have
\* interleaved over the same rules and events and both have committed, no two
\* Alert rows have the same (rule_id, event_id).
C2_OneAlertPerPairAfterRaces ==
    AllIdle =>
        \A a, b \in alerts :
            (a.rule_id = b.rule_id /\ a.event_id = b.event_id) => a.id = b.id

----------------------------------------------------------------------------
(* Evidence rows and the contents written *)

\* the EvidenceFile rows of the packet file of incident i
PacketRows(i) ==
    {e \in evidence : e.incident_id = i /\ e.filename = PacketFilename(i)}

\* the digests of the payloads written for incident i
DigestsWritten(hist, i) ==
    {Sha256(w.payload) : w \in {x \in hist : x.incident_id = i}}

\* C4: with the handlers run one after the other, the number of EvidenceFile
\* rows of (incident_id, "<incident_id>/incident-packet.json") is the number
\* of distinct contents write_packet_evidence wrote for the incident; a call
\* with a content written before adds no row, a call with a new content adds
\* exactly one row, and no call removes a row.
C4_RowsCountContents ==
    /\ [](\A i \in IncidentIds :
            Cardinality(PacketRows(i)) = Cardinality(DigestsWritten(written, i)))
    /\ [][(ExportMarkdown \/ ExportPdf) =>
            /\ evidence \subseteq evidence'
            /\ Cardinality(evidence' \ evidence) =
                 (IF \A i \in IncidentIds :
                        DigestsWritten(written', i) = DigestsWritten(written, i)
                  THEN 0 ELSE 1)]_vars

\* C4, the case: two contents were written for an incident, one of them more
\* than once, and the incident has two rows.
C4_Witness ==
    \E i \in IncidentIds :
        /\ Cardinality(PacketRows(i)) = 2
        /\ \E w \in written : w.incident_id = i /\ w.again

\* C5: when two report generations for one incident, each in a session of its
\* own, have run concurrently and finished, there is one EvidenceFile row for
\* each (incident_id, filename, sha256).
C5_OneRowPerContentAfterRaces ==
    AllIdle =>
        \A e1, e2 \in evidence :
            (/\ e1.incident_id = e2.incident_id
             /\ e1.filename = e2.filename
             /\ e1.sha256 = e2.sha256) => e1.id = e2.id

----------------------------------------------------------------------------
(* Incidents, their links and their actions *)

\* C6: with the handlers run one after the other, every IncidentAlert row
\* references a stored Incident and a stored Alert and every IncidentAction
\* row a stored Incident; after delete_incident(i) no link or action of i is
\* left and get_incident(i) is not found; after delete_alert(a) no link of a
\* is left.
C6_LinksAndActionsReferenceRows ==
    /\ [](/\ \A l \in links :
               /\ \E inc \in incidents : inc.id = l.incident_id
               /\ \E a \in alerts : a.id = l.alert_id
          /\ \A x \in actions : \E inc \in incidents : inc.id = x.incident_id)
    /\ [][/\ \A i \in IncidentIds :
               /\ DeleteIncidentOf(i) =>
                    /\ \A l \in links' : l.incident_id # i
                    /\ \A x \in actions' : x.incident_id # i
                    /\ \A inc \in incidents' : inc.id # i
               /\ (GetIncidentOf(i) /\ \A inc \in incidents : inc.id # i) =>
                    result'.status = "not_found"
          /\ \A a \in AlertIds :
               DeleteAlertOf(a) => \A l \in links' : l.alert_id # a]_vars

\* C6, the case: an incident that had an action has been deleted, and nothing
\* of it is left.
C6_Witness ==
    /\ result.status = "deleted"
    /\ nextId.incident > 1
    /\ incidents = {}
    /\ nextId.action > 1
    /\ actions = {}
    /\ links = {}
    /\ alerts # {}

\* C8: add_alert_to_incident(i, a) on a link (i, a) that exists returns
\* "already-linked" and leaves the store as it was (no second row, updated_at
\* as it was); in every state there is at most one IncidentAlert row for each
\* (incident_id, alert_id).
C8_LinkingIsIdempotent ==
    /\ [](\A x, y \in links :
            (x.incident_id = y.incident_id /\ x.alert_id = y.alert_id) => x = y)
    /\ [][\A i \in IncidentIds, a \in AlertIds :
            ((\E x \in links : x.incident_id = i /\ x.alert_id = a) /\ AddAlertTo(i, a))
            => /\ result' = Returned("already-linked", 0)
               /\ UNCHANGED <<rules, events, alerts, incidents, links, actions,
                              evidence, blobs>>]_vars

\* C8, the case: a link that existed was asked for again.
C8_Witness ==
    /\ result.status = "already-linked"
    /\ links # {}

\* C9: an incident is created open, and a closed incident is closed in every
\* later state in which it exists, whatever follows: a link, an action, a
\* second close, a report, a detection run.
C9_ClosedStaysClosed ==
    [][\A inc2 \in incidents' :
          /\ (\A inc \in incidents : inc.id # inc2.id) => inc2.status = "open"
          /\ \A inc \in incidents :
                (inc.id = inc2.id /\ inc.status = "closed") => inc2.status = "closed"]_vars

\* C9, the case: an alert has just been linked to an incident that is closed
\* and has a report on record.
C9_Witness ==
    /\ result.status = "linked"
    /\ \A inc \in incidents : inc.status = "closed"
    /\ \E inc \in incidents :
          /\ \E l \in links : l.incident_id = inc.id
          /\ PacketRows(inc.id) # {}

\* C10: updated_at is set by every operation that links an alert (the links
\* create_incident makes from alert_ids among them), by every action and by
\* every close, so that an incident's updated_at is never earlier than the
\* added_at of any of its links or the created_at of any of its actions.
C10_UpdatedAtCoversLinksAndActions ==
    \A inc \in incidents :
        /\ \A l \in links : l.incident_id = inc.id => l.added_at <= inc.updated_at
        /\ \A x \in actions : x.incident_id = inc.id => x.created_at <= inc.updated_at

----------------------------------------------------------------------------
(* run_detections when the store fails *)

\* the alerts a failed session leaves behind, had its flushed rows been kept
RolledBackKept(als, added) == als \cup added

\* db.py lines 12-14: the exception leaves `with Session(engine)`, the session
\* is closed and its transaction rolled back: the committed rows stay as they
\* were
RolledBack(als, added) == als

\* A query, a flush or the commit of the run raises: the exception leaves
\* run_detections and the handler
DetectFail(s) ==
    /\ sess[s].pc = "detect"
    /\ alerts' = RolledBack(alerts, sess[s].added)
    /\ result' = Returned("error", 0)
    /\ sess' = [sess EXCEPT ![s] = Idle]
    /\ UNCHANGED <<now, rules, events, incidents, links, actions, evidence, blobs,
                   nextId, written>>

DetectFailAny == \E s \in Sessions : DetectFail(s)

NextDetectFail ==
    \/ DetectBeginAny
    \/ DetectStepAny
    \/ DetectCommitAny
    \/ DetectFailAny

SpecDetectFail == InitIncident /\ [][NextDetectFail]_vars

\* C11: if the store fails at any point of a run of run_detections, none of
\* the alerts the run constructed is visible afterwards; the committed Alert
\* rows change only when a run commits, and then by all the alerts of that run.
C11_AllOrNothing ==
    /\ [](\A s \in Sessions :
            sess[s].pc = "detect" => sess[s].added \cap alerts = {})
    /\ [][/\ \A s \in Sessions : DetectFail(s) => alerts' = alerts
          /\ \/ alerts' = alerts
             \/ \E s \in Sessions :
                   /\ sess[s].pc = "detect"
                   /\ sess'[s].pc = "idle"
                   /\ result'.status = "alerts_created"
                   /\ alerts' = alerts \cup sess[s].added]_vars

\* C11, the case: a run that had constructed alerts failed, and no alert is
\* stored.
C11_Witness ==
    /\ result.status = "error"
    /\ nextId.alert > 1
    /\ alerts = {}
    /\ AllIdle

----------------------------------------------------------------------------
(* Requests for an incident or an alert that is not stored *)

NextNotFound ==
    \/ CreateIncident
    \/ GetIncident
    \/ DeleteIncident
    \/ GetIncidentPacket
    \/ AddAlertToIncident
    \/ CreateIncidentAction
    \/ CloseIncident
    \/ ExportMarkdown
    \/ ExportPdf

SpecNotFound == InitEvidence /\ [][NextNotFound]_vars

\* C12: get_incident, delete_incident, get_incident_packet,
\* add_alert_to_incident, create_incident_action, close_incident,
\* export_markdown and export_pdf, addressed to an incident id that is not
\* stored, end with NotFound and leave the store and the evidence files as
\* they were; so does add_alert_to_incident for a stored incident and an alert
\* id that is not stored.
C12_UnresolvedIsNotFound ==
    [][/\ \A i \in IncidentIds :
            (/\ \A inc \in incidents : inc.id # i
             /\ \/ GetIncidentOf(i)
                \/ DeleteIncidentOf(i)
                \/ GetIncidentPacketOf(i)
                \/ \E a \in AlertIds : AddAlertTo(i, a)
                \/ CreateIncidentActionOf(i)
                \/ CloseIncidentOf(i)
                \/ Export(i))
            => /\ result'.status = "not_found"
               /\ UNCHANGED <<rules, events, alerts, incidents, links, actions,
                              evidence, blobs>>
       /\ \A i \in IncidentIds, a \in AlertIds :
            (/\ \A x \in alerts : x.id # a
             /\ AddAlertTo(i, a))
            => /\ result'.status = "not_found"
               /\ UNCHANGED <<incidents, links>>]_vars

----------------------------------------------------------------------------
(* The packet of an incident, over stores of every shape *)

\* events as POST /events and POST /imports/jsonl leave them: source, host,
\* user and payload
PacketEventKinds == {
    [source |-> "aws", host |-> "h1", user |-> None, raw |-> 4],
    [source |-> "fw", host |-> "", user |-> "u1", raw |-> 5],
    [source |-> "aws", host |-> "h1", user |-> "u1", raw |-> 1]
}

\* the Event row of kind k
PacketEvent(id, t, k) ==
    [id |-> id, received_at |-> t, pos |-> 1, source |-> k.source,
     host |-> k.host, user |-> k.user, raw |-> k.raw]

\* the (rule, event) pairs run_detections makes an alert for
MatchingPairs(rs, evs) ==
    {p \in rs \X evs : Matches(p[1], p[2].source, Payloads[p[2].raw])}

\* the id of the alert of a pair
PairAlertId(p) == 2 * (p[2].id - 1) + p[1].id

\* A store with two events, alerts that run_detections made for some of their
\* matching pairs at some time after the event was received, and an incident
\* that these alerts are linked to
InitPacket ==
    \E k1, k2 \in PacketEventKinds, te \in Times, tc \in Times :
    \E tu \in {t \in Times : tc <= t} :
    \E S \in SUBSET MatchingPairs(SeedRules, {PacketEvent(1, 0, k1), PacketEvent(2, te, k2)}) :
    \E f \in [S -> Times] :
        /\ Cardinality(S) <= MaxAlerts
        /\ \A p \in S : p[2].received_at <= f[p]
        /\ now = MaxTime
        /\ rules = SeedRules
        /\ events = {PacketEvent(1, 0, k1), PacketEvent(2, te, k2)}
        /\ alerts = {NewAlert(PairAlertId(p), f[p], p[1], p[2]) : p \in S}
        /\ incidents = {[id |-> 1, created_at |-> tc, updated_at |-> tu,
                         title |-> "incident", severity |-> "medium",
                         status |-> "open", description |-> ""]}
        /\ links = {[incident_id |-> 1, alert_id |-> PairAlertId(p), added_at |-> MaxTime]
                    : p \in S}
        /\ actions = {}
        /\ evidence = {}
        /\ blobs = {}
        /\ nextId = [rule |-> 3, event |-> 3, alert |-> 5, incident |-> 2, action |-> 1,
                     evidence |-> 1]
        /\ result = Returned("ok", 0)
        /\ written = {}
        /\ sess = [s \in Sessions |-> Idle]

NextPacket == GetIncidentPacket

SpecPacket == InitPacket /\ [][NextPacket]_vars

\* the packet the last request returned, if it returned one
HasPacket == "packet" \in DOMAIN result

\* datetime.fromisoformat on the text of IsoFormat
ParseIso(s) ==
    2 * (10 * (CharRank(s[1]) - 2) + (CharRank(s[2]) - 2))
    + (IF Len(s) > 2 THEN 1 ELSE 0)

\* C13: the timeline of the packet is non-decreasing by timestamp: of every
\* two consecutive entries the earlier-listed one has a timestamp <= that of
\* the next.
C13_TimelineNonDecreasing ==
    HasPacket =>
        \A k \in 1..(Len(result.packet.timeline) - 1) :
            ParseIso(result.packet.timeline[k].time)
                <= ParseIso(result.packet.timeline[k + 1].time)

\* C13, the case: a packet whose timeline starts with an event that was
\* appended after an alert of a later time.
C13_Witness ==
    /\ HasPacket
    /\ Len(result.packet.timeline) >= 3
    /\ result.packet.timeline[1].type = "event"
    /\ ParseIso(result.packet.timeline[1].time)
         < ParseIso(result.packet.timeline[Len(result.packet.timeline)].time)

----------------------------------------------------------------------------
(* The scope of the packet *)

SeqRange(L) == {L[i] : i \in 1..Len(L)}

NoDup(L) == \A i, j \in 1..Len(L) : L[i] = L[j] => i = j

FirstIndex(W, x) == CHOOSE i \in 1..Len(W) : W[i] = x /\ \A j \in 1..(i - 1) : W[j] # x

\* L lists the values of W that are not in `empty`, each once, in the order
\* in which they first appear in W
ListsFirstSeen(L, W, empty) ==
    /\ NoDup(L)
    /\ SeqRange(L) = SeqRange(W) \ empty
    /\ \A i, j \in 1..Len(L) : i < j => FirstIndex(W, L[i]) < FirstIndex(W, L[j])

\* the stored event of an alert of the packet
EventById(id) == CHOOSE e \in events : e.id = id

\* the alerts of the packet in their order, each with its own value before
\* the value of its event
WalkHosts(p) ==
    Concat([i \in 1..Len(p.alerts) |->
              <<p.alerts[i].host, EventById(p.alerts[i].event_id).host>>])

WalkUsers(p) ==
    Concat([i \in 1..Len(p.alerts) |->
              <<p.alerts[i].user, EventById(p.alerts[i].event_id).user>>])

WalkSources(p) ==
    Concat([i \in 1..Len(p.alerts) |->
              <<p.alerts[i].source, EventById(p.alerts[i].event_id).source>>])

\* the str values found under the IP keys of a payload, key by key: a str
\* itself, the str items of a sequence
StrValuesUnderIpKeys(raw) ==
    Concat([k \in 1..Len(IpKeys) |->
              LET v == DictGet(raw, IpKeys[k])
              IN IF v.t = "str" THEN <<v.s>>
                 ELSE IF v.t = "list"
                      THEN Concat([i \in 1..Len(v.xs) |->
                                     IF v.xs[i].t = "str" THEN <<v.xs[i].s>> ELSE <<>>])
                      ELSE <<>>])

WalkIpValues(p) ==
    Concat([i \in 1..Len(p.alerts) |->
              StrValuesUnderIpKeys(Payloads[EventById(p.alerts[i].event_id).raw])])

Stripped(W) == [i \in 1..Len(W) |-> Strip(W[i])]

HostsUsersSourcesListed(p) ==
    /\ ListsFirstSeen(p.scope.hosts, WalkHosts(p), {None, ""})
    /\ ListsFirstSeen(p.scope.users, WalkUsers(p), {None, ""})
    /\ ListsFirstSeen(p.scope.sources, WalkSources(p), {None, ""})

----------------------------------------------------------------------------
(* One rule against one payload: the source filter, the path, the substring *)

\* a store of one rule and one event, of every kind
InitMatch ==
    /\ now = 0
    /\ \E ri \in MatchRuleInputs :
        rules = {[id |-> 1, created_at |-> 0, name |-> ri.name, severity |-> ri.severity,
                  match_source |-> ri.match_source, match_field |-> ri.match_field,
                  match_contains |-> ri.match_contains]}
    /\ \E s \in Sources, p \in PayloadIds :
        events = {[id |-> 1, received_at |-> 0, pos |-> 1, source |-> s,
                   host |-> None, user |-> None, raw |-> p]}
    /\ alerts = {}
    /\ incidents = {}
    /\ links = {}
    /\ actions = {}
    /\ evidence = {}
    /\ blobs = {}
    /\ nextId = [rule |-> 2, event |-> 2, alert |-> 1, incident |-> 1, action |-> 1, evidence |-> 1]
    /\ result = Returned("ok", 0)
    /\ written = {}
    /\ sess = [s \in Sessions |-> Idle]

NextMatch == RunDetections

SpecMatch == InitMatch /\ [][NextMatch]_vars

Alerted(r, e) == \E a \in alerts : a.rule_id = r.id /\ a.event_id = e.id

\* C15 as stated: a rule whose match_source is not "*" and is not the source
\* of the event leaves no alert for the event, the empty match_source
\* included.
C15_OtherSourceNeverMatches ==
    \A r \in rules, e \in events :
        r.match_source # "*" /\ r.match_source # e.source => ~Alerted(r, e)

\* every segment of the path is a key of the mapping reached so far
RECURSIVE PathPresent(_, _)
PathPresent(node, parts) ==
    \/ parts = <<>>
    \/ /\ node.t = "map"
       /\ HasKey(node, Head(parts))
       /\ PathPresent(Lookup(node, Head(parts)), Tail(parts))

\* C16 as stated: after a run, a rule with the empty match_contains has an
\* alert for every event of the window that passes its source filter and
\* holds a value at its match_field, of whatever type.
C16_EmptySubstringMatchesEveryValue ==
    result.status = "alerts_created" =>
        \A r \in rules, e \in events :
            /\ r.match_contains = <<>>
            /\ r.match_source = "*" \/ r.match_source = e.source
            /\ PathPresent(Payloads[e.raw], Split(r.match_field))
            => Alerted(r, e)

JsonTags == {"null", "bool", "num", "str", "list", "map"}

\* C17: for every rule and payload the lookup of match_field ends with a
\* value or None and raises nothing, also where a segment of the path meets
\* a node that is no mapping or a key that is missing; a pair whose path is
\* absent has no alert; run_detections can always run to its end, and what
\* it returns is a count.
C17_AbsentPathIsNoMatch ==
    /\ \A r \in rules, e \in events :
        /\ GetByPath(Payloads[e.raw], r.match_field).t \in JsonTags
        /\ ~PathPresent(Payloads[e.raw], Split(r.match_field)) => ~Alerted(r, e)
    /\ \E o \in DetectionOutcomes(DetectionLimit) : o.created \in Nat /\ o.nid <= MaxAlerts + 1
    /\ result.status = "alerts_created" => result.n \in 0..Cardinality(alerts)

\* C17, the case: a run has ended with the count 0 on a rule that would take
\* any value of any source, where the path runs into a str
C17_Witness ==
    /\ result = Returned("alerts_created", 0)
    /\ \E r \in rules, e \in events :
        /\ r.match_source = "*"
        /\ r.match_contains = <<>>
        /\ r.match_field = <<"u", ".", "n", ".", "z">>
        /\ GetByPath(Payloads[e.raw], <<"u", ".", "n">>).t = "str"
        /\ ~PathPresent(Payloads[e.raw], Split(r.match_field))

----------------------------------------------------------------------------
(* What a run of the detections counts *)

\* the events with fewer than `limit` events received more recently
MostRecent(evs, limit) ==
    {e \in evs :
        Cardinality({x \in evs : \/ x.received_at > e.received_at
                                 \/ (x.received_at = e.received_at /\ x.pos < e.pos)})
            < limit}

\* the pairs of a stored rule and an event of the window that match and have
\* no alert
NewPairs(limit) ==
    {p \in rules \X MostRecent(events, limit) :
        /\ RuleMatchesEvent(p[1], p[2])
        /\ ~Alerted(p[1], p[2])}

----------------------------------------------------------------------------
(* The time window of the packet *)

\* the alerts linked to the incident of packet p
LinkedAlerts(p) ==
    {a \in alerts : \E x \in links : x.incident_id = p.incident.id /\ x.alert_id = a.id}

\* the created_at of the linked alerts and the received_at of their events
LinkedTimes(p) ==
    {a.created_at : a \in LinkedAlerts(p)}
    \cup {e.received_at : e \in {x \in events : \E a \in LinkedAlerts(p) : a.event_id = x.id}}

\* C19: the start of scope.time_window is the least and its end the greatest
\* of the created_at of the linked alerts and the received_at of their
\* events; with no linked alert the window is the incident's created_at and
\* updated_at; the start is not after the end, and the time of every entry
\* of the timeline lies in the window.
C19_TimeWindowSpansLinkedTimes ==
    HasPacket =>
        LET p == result.packet
            start == ParseIso(p.scope.time_window.start)
            end == ParseIso(p.scope.time_window.end)
            T == LinkedTimes(p)
            inc == CHOOSE x \in incidents : x.id = p.incident.id
        IN /\ p.scope.time_window.start = IsoFormat(start)
           /\ p.scope.time_window.end = IsoFormat(end)
           /\ T # {} => /\ start \in T /\ \A t \in T : start <= t
                        /\ end \in T /\ \A t \in T : t <= end
           /\ T = {} => start = inc.created_at /\ end = inc.updated_at
           /\ start <= end
           /\ \A i \in 1..Len(p.timeline) :
                /\ start <= ParseIso(p.timeline[i].time)
                /\ ParseIso(p.timeline[i].time) <= end

\* C19, the case: a packet of linked alerts whose window opens at the time of
\* an event, before the first alert, and closes later
C19_Witness ==
    /\ HasPacket
    /\ Len(result.packet.alerts) >= 1
    /\ ParseIso(result.packet.scope.time_window.start)
         < ParseIso(result.packet.scope.time_window.end)
    /\ \A a \in LinkedAlerts(result.packet) :
         ParseIso(result.packet.scope.time_window.start) < a.created_at

----------------------------------------------------------------------------
(* The order of the timeline among equal times *)

\* what is appended to the timeline before the sort, as type and time: for
\* every alert of the packet in its order, the alert and then its event
Appended(p) ==
    Concat([i \in 1..Len(p.alerts) |->
              <<[type |-> "alert", time |-> p.alerts[i].created_at]>>
              \o (IF \E e \in events : e.id = p.alerts[i].event_id
                  THEN <<[type |-> "event",
                          time |-> IsoFormat(EventById(p.alerts[i].event_id).received_at)]>>
                  ELSE <<>>)])

\* the place of the i-th appended entry after a stable sort by time: behind
\* the entries of an earlier time and the entries of its time appended before
PlaceOf(ins, i) ==
    1 + Cardinality({j \in 1..Len(ins) :
                        \/ ParseIso(ins[j].time) < ParseIso(ins[i].time)
                        \/ (ins[j].time = ins[i].time /\ j < i)})

\* C20: the entries of the timeline are the appended entries, one for every
\* linked alert and one for the event of every linked alert whose event is
\* stored, ordered by time, the entries of one time in the order in which
\* they were appended: an alert before its event, the entries of an alert
\* created earlier before those of an alert created later.
C20_TimelineSortIsStable ==
    HasPacket =>
        LET p == result.packet
            ins == Appended(p)
        IN /\ Len(p.timeline) = Len(ins)
           /\ \A i \in 1..Len(ins) :
                /\ p.timeline[PlaceOf(ins, i)].type = ins[i].type
                /\ p.timeline[PlaceOf(ins, i)].time = ins[i].time
           /\ Cardinality({i \in 1..Len(p.timeline) : p.timeline[i].type = "alert"})
                = Cardinality(LinkedAlerts(p))
           /\ Cardinality({i \in 1..Len(p.timeline) : p.timeline[i].type = "event"})
                = Cardinality({a \in LinkedAlerts(p) : \E e \in events : e.id = a.event_id})

\* C20, the case: a timeline of two alerts created at two times and their
\* events, where an alert and the event behind it have one time that an
\* entry of the other alert has too
C20_Witness ==
    /\ HasPacket
    /\ Len(result.packet.timeline) = 4
    /\ result.packet.alerts[1].created_at # result.packet.alerts[2].created_at
    /\ \E i \in 1..3 :
        /\ result.packet.timeline[i].type = "alert"
        /\ result.packet.timeline[i + 1].type = "event"
        /\ result.packet.timeline[i].time = result.packet.timeline[i + 1].time
        /\ Cardinality({k \in 1..4 :
                          result.packet.timeline[k].time = result.packet.timeline[i].time}) = 3

----------------------------------------------------------------------------
(* The manifest of an incident and the packet file it describes *)

NextManifest ==
    \/ AddAlertToIncident
    \/ DeleteAlert
    \/ ExportMarkdown
    \/ ExportPdf

SpecManifest == InitWriter /\ [][NextManifest]_vars

\* select(EvidenceFile).where(incident_id == i).order_by(created_at.desc()):
\* the rows that can come first, those of the latest created_at
NewestEvidence(i) ==
    {e \in evidence : /\ e.incident_id = i
                      /\ \A x \in evidence : x.incident_id = i => x.created_at <= e.created_at}

\* C21 as stated: after the calls of write_packet_evidence for an incident,
\* the bytes stored at <incident_id>/incident-packet.json have the sha256 and
\* the length of the first entry of the manifest, the newest row of the
\* incident (rows of one created_at may come in any order: one of them has
\* them).
C21_NewestEntryDescribesStoredBytes ==
    \A i \in IncidentIds : \A f \in blobs :
        f.path = PacketFilename(i) =>
            \E e \in NewestEvidence(i) :
                /\ e.sha256 = Sha256(f.bytes)
                /\ e.size_bytes = ByteLen(f.bytes)

----------------------------------------------------------------------------
(* An alert deleted and detected again *)

\* The store after create_rule, ingest_event and create_incident, with one
\* of the rules
InitRecreate ==
    /\ now = MaxTime - 1
    /\ \E r \in SeedRules : rules = {r}
    /\ events = SeedEvents
    /\ alerts = {}
    /\ incidents = SeedIncidents
    /\ links = {}
    /\ actions = {}
    /\ evidence = {}
    /\ blobs = {}
    /\ nextId = [rule |-> 3, event |-> 2, alert |-> 1, incident |-> 2, action |-> 1,
                 evidence |-> 1]
    /\ result = Returned("ok", 0)
    /\ written = {}
    /\ sess = [s \in Sessions |-> Idle]

NextRecreate ==
    \/ RunDetections
    \/ DeleteAlert
    \/ AddAlertToIncident

SpecRecreate == InitRecreate /\ [][NextRecreate]_vars

\* C22: delete_alert removes the alert and its links and nothing of rules and
\* events, which leaves its pair without an alert; the run of run_detections
\* that finds a stored rule matching an event of the window without an alert
\* adds an alert for the pair, counts it, gives it an id no alert had before,
\* and leaves it linked to no incident.
C22_DeletedAlertIsDetectedAnew ==
    /\ [][\A id \in 1..MaxAlerts :
            (DeleteAlertOf(id) /\ \E a \in alerts : a.id = id) =>
                /\ alerts' = {a \in alerts : a.id # id}
                /\ links' = {x \in links : x.alert_id # id}
                /\ UNCHANGED <<rules, events, incidents>>]_vars
    /\ [][(result'.status = "alerts_created" /\ RunDetections) =>
            \A r \in rules, e \in MostRecent(events, DetectionLimit) :
                (RuleMatchesEvent(r, e) /\ ~Alerted(r, e)) =>
                    /\ result'.n >= 1
                    /\ \E a \in alerts' \ alerts :
                        /\ a.rule_id = r.id /\ a.event_id = e.id
                        /\ a.id >= nextId.alert
                        /\ nextId'.alert > a.id
                        /\ \A x \in links' : x.alert_id # a.id]_vars

\* C22, the case: an alert was linked to the incident and deleted, and a run
\* has made the alert of its pair again, under another id and with no link
C22_Witness ==
    /\ result = Returned("alerts_created", 1)
    /\ \E i \in incidents : i.updated_at > i.created_at
    /\ links = {}
    /\ \E a \in alerts : a.id > 1
    /\ Cardinality(alerts) = 1

----------------------------------------------------------------------------
(* What delete_incident leaves behind *)

\* the ids of the incidents of a store that holds one incident more
BothIncidentIds == 1..(MaxIncidents + 1)

\* The store some time after run_detections, create_incident for each of the
\* ids with the alerts of some list, and create_incident_action on each
\* incident
InitOrphan ==
    /\ now = MaxTime
    /\ rules = SeedRules
    /\ events = SeedEvents
    /\ alerts = SeedAlerts
    /\ incidents = {[id |-> i, created_at |-> 0, updated_at |-> 0, title |-> "incident",
                     severity |-> "medium", status |-> "open", description |-> ""]
                    : i \in BothIncidentIds}
    /\ \E linked \in [BothIncidentIds -> SUBSET {a.id : a \in SeedAlerts}] :
        links = {[incident_id |-> i, alert_id |-> a, added_at |-> 0]
                 : <<i, a>> \in {x \in BothIncidentIds \X AlertIds : x[2] \in linked[x[1]]}}
    /\ actions = {[id |-> i, incident_id |-> i, created_at |-> 0,
                   actor |-> None, action_type |-> "note", summary |-> "note",
                   details |-> None] : i \in BothIncidentIds}
    /\ evidence = {}
    /\ blobs = {}
    /\ nextId = [rule |-> 3, event |-> 2, alert |-> 3, incident |-> MaxIncidents + 2,
                 action |-> MaxIncidents + 2, evidence |-> 1]
    /\ result = Returned("ok", 0)
    /\ written = {}
    /\ sess = [s \in Sessions |-> Idle]

ExportEither == \E i \in BothIncidentIds : Export(i)

DeleteEither == \E i \in BothIncidentIds : DeleteIncidentOf(i)

NextOrphan ==
    \/ ExportEither
    \/ DeleteEither

SpecOrphan == InitOrphan /\ [][NextOrphan]_vars

\* C23: delete_incident on a stored incident removes the incident, its links
\* and its actions, and leaves every other row as it was: the EvidenceFile
\* rows (those of the incident too) and the packet files, the alerts, events
\* and rules, the other incidents and their links and actions.
C23_DeleteIncidentLeavesEvidence ==
    [][\A i \in BothIncidentIds :
        (DeleteIncidentOf(i) /\ IncidentExists(i)) =>
            /\ incidents' = {inc \in incidents : inc.id # i}
            /\ links' = {x \in links : x.incident_id # i}
            /\ actions' = {x \in actions : x.incident_id # i}
            /\ UNCHANGED <<evidence, blobs, alerts, events, rules>>]_vars

\* C23, the case: an incident with a link, an action and a packet written has
\* been deleted; its EvidenceFile row and its packet file are there, and so
\* are the link and the action of the other incident
C23_Witness ==
    /\ result.status = "deleted"
    /\ \E e \in evidence :
        /\ ~IncidentExists(e.incident_id)
        /\ \E f \in blobs : f.path = PacketFilename(e.incident_id)
                            /\ Len(f.bytes.json.alerts) >= 1
                            /\ Len(f.bytes.json.actions) >= 1
    /\ \E inc \in incidents :
        /\ \E x \in links : x.incident_id = inc.id
        /\ \E x \in actions : x.incident_id = inc.id

====
